---------------------------- MODULE Spec2Model ----------------------------
(***************************************************************************)
(* On-call rotation schedule: generateBaseSchedule, applyOverrides,        *)
(* truncateAndFilterSchedule and makeSchedule of src/index.js.             *)
(*                                                                         *)
(* Instants are integers, milliseconds since the epoch, as Date.getTime()  *)
(* returns them.  A formatted timestamp (the string dateIso returns) is    *)
(* represented by the millisecond value of the instant the string denotes. *)
(* A working shift and a parsed override are records                       *)
(* [user, start_at, end_at].                                               *)
(***************************************************************************)
EXTENDS Integers, Sequences, FiniteSets

VARIABLES
    config,                  \* ScheduleConfig given to makeSchedule
    from,                    \* fromDate.getTime()
    until,                   \* untilDate.getTime()
    overrides,               \* the overrides as supplied to makeSchedule
    parsedOverrides,         \* the array handed to applyOverrides
    baseShifts,              \* generateBaseSchedule: baseShifts
    current_shift_start_ms,  \* generateBaseSchedule: loop variable
    current_user_index,      \* generateBaseSchedule: loop variable
    workingSchedule,         \* applyOverrides: workingSchedule
    nextOverride,            \* applyOverrides: position of the for-of loop
    finalSchedule,           \* truncateAndFilterSchedule: finalSchedule
    pc                       \* position in main / makeSchedule

vars == <<config, from, until, overrides, parsedOverrides, baseShifts,
          current_shift_start_ms, current_user_index, workingSchedule,
          nextOverride, finalSchedule, pc>>

---------------------------------------------------------------------------
(* Bounds of the model *)

MaxUsers == 2
MaxDays == 1
MaxSpan == 2
MaxOverrides == 2

---------------------------------------------------------------------------
(* Values of the program *)

MsPerSecond == 1000
MsPerDay == 24 * 60 * 60 * 1000
\* The grid of the explored instants: a third of a day
StepMs == MsPerDay \div 3
HalfSecondMs == MsPerSecond \div 2

\* users[i] of an index that is no element of the array, and the result of
\* x % 0
Undefined == "undefined"
NaN == "NaN"

Roster == <<"A", "B", "C", "D">>
OverrideUsers == <<"X", "Y", "Z", "W">>

\* handover_start_at of the configurations explored: 1970-01-03T17:00:00Z
AnchorMs == 2 * MsPerDay + 17 * 60 * 60 * 1000

Configs ==
    { [users |-> SubSeq(Roster, 1, n),
       handover_start_ms |-> AnchorMs,
       handover_interval_days |-> d] : n \in 0..MaxUsers, d \in -1..MaxDays }

\* Query windows: from one step before the anchor to one step after it,
\* until up to MaxSpan steps later; both on a whole second, or one of them
\* half a second past it.  from >= until is included: main rejects it.
Windows ==
    { <<AnchorMs + h * StepMs + f[1],
        AnchorMs + (h + s) * StepMs + f[2]>> :
        h \in -1..1, s \in 0..MaxSpan,
        f \in {<<0, 0>>, <<HalfSecondMs, 0>>, <<0, HalfSecondMs>>} }

OverridePoints == { AnchorMs + h * StepMs : h \in -1..(MaxSpan + 1) }

\* Sequences of at most MaxOverrides overrides with start < end; the k-th
\* supplied override names the k-th override user.
OverrideIntervals ==
    { iv \in OverridePoints \X OverridePoints : iv[1] < iv[2] }

OverrideInputs ==
    UNION { { [k \in 1..n |-> [user |-> OverrideUsers[k],
                               start_at |-> f[k][1],
                               end_at |-> f[k][2]]] :
              f \in [1..n -> OverrideIntervals] } : n \in 0..MaxOverrides }

---------------------------------------------------------------------------
(* Helpers *)

\* JavaScript's a % b for b # 0: the remainder takes the sign of a
JsRem(a, b) ==
    LET m == IF b < 0 THEN -b ELSE b
    IN  IF a >= 0 THEN a % m ELSE -((-a) % m)

\* Math.floor(a / b) for b > 0
FloorDiv(a, b) == a \div b

\* Math.trunc(a / b) for b > 0
TruncDiv(a, b) == IF a >= 0 THEN a \div b ELSE -((-a) \div b)

\* d.toISOString().split('.')[0] + "Z": the milliseconds are dropped
dateIso(d) == d - (d % MsPerSecond)

IntervalMs(c) == c.handover_interval_days * MsPerDay

\* users[i] of a JavaScript array
UserAt(users, i) ==
    IF Len(users) = 0 THEN Undefined
    ELSE IF i \in 0..(Len(users) - 1) THEN users[i + 1]
    ELSE Undefined

Shift(u, s, e) == [user |-> u, start_at |-> s, end_at |-> e]


---------------------------------------------------------------------------
(* generateBaseSchedule *)

\* A slip of generateBaseSchedule: the quotient truncated toward zero
intervals_passed_truncated(c, f) ==
    TruncDiv(f - c.handover_start_ms, IntervalMs(c))

\* Math.floor(elapsed_ms / interval_ms)
intervals_passed(c, f) ==
    FloorDiv(f - c.handover_start_ms, IntervalMs(c))

\* A slip of generateBaseSchedule: the remainder is not normalised
first_user_index_unnormalised(ip, num_users) ==
    IF num_users = 0 THEN NaN ELSE JsRem(ip, num_users)

\* ((intervals_passed % num_users) + num_users) % num_users
first_user_index(ip, num_users) ==
    IF num_users = 0 THEN NaN
    ELSE JsRem(JsRem(ip, num_users) + num_users, num_users)

\* (current_user_index + 1) % num_users
next_user_index(i, num_users) ==
    IF num_users = 0 THEN NaN ELSE JsRem(i + 1, num_users)

---------------------------------------------------------------------------
(* applyOverrides *)

\* A slip of has_overlap: an override that ends inside the shift is missed
HasOverlapStartOnly(shift, ov) ==
    (ov.start_at < shift.end_at) /\ (ov.start_at >= shift.start_at)

\* has_overlap of applyOverrides
HasOverlap(shift, ov) ==
    (ov.start_at < shift.end_at) /\ (ov.end_at > shift.start_at)

\* A slip of the remnants: the 'after' part is given to the override's user
SplitShiftAfterToOverride(shift, ov) ==
    IF ~HasOverlap(shift, ov) THEN <<shift>>
    ELSE (IF shift.start_at < ov.start_at
          THEN <<Shift(shift.user, shift.start_at, ov.start_at)>> ELSE <<>>)
         \o
         (IF shift.end_at > ov.end_at
          THEN <<Shift(ov.user, ov.end_at, shift.end_at)>> ELSE <<>>)

\* One pass of the inner loop's body: what a shift contributes to nextSchedule
SplitShift(shift, ov) ==
    IF ~HasOverlap(shift, ov) THEN <<shift>>
    ELSE (IF shift.start_at < ov.start_at
          THEN <<Shift(shift.user, shift.start_at, ov.start_at)>> ELSE <<>>)
         \o
         (IF shift.end_at > ov.end_at
          THEN <<Shift(shift.user, ov.end_at, shift.end_at)>> ELSE <<>>)

\* The inner loop: nextSchedule before the override is pushed
RECURSIVE SplitAll(_, _)
SplitAll(schedule, ov) ==
    IF schedule = <<>> THEN <<>>
    ELSE SplitShift(Head(schedule), ov) \o SplitAll(Tail(schedule), ov)

\* x placed behind every element that does not start later than it
RECURSIVE InsertByStart(_, _)
InsertByStart(sorted, x) ==
    IF sorted = <<>> THEN <<x>>
    ELSE IF Head(sorted).start_at <= x.start_at
         THEN <<Head(sorted)>> \o InsertByStart(Tail(sorted), x)
         ELSE <<x>> \o sorted

RECURSIVE InsertAll(_, _)
InsertAll(sorted, rest) ==
    IF rest = <<>> THEN sorted
    ELSE InsertAll(InsertByStart(sorted, Head(rest)), Tail(rest))

\* A slip of the sort: the array is left in the order it was built
SortByStartOmitted(s) == s

\* Array.prototype.sort((a, b) => a.start_at.getTime() - b.start_at.getTime()):
\* ascending by start, stable
SortByStart(s) == InsertAll(<<>>, s)

\* A slip of the outer loop's body: the override is never pushed
ApplyOneWithoutPush(schedule, ov) ==
    SortByStart(SplitAll(schedule, ov))

\* A slip of the outer loop's body: nextSchedule is not re-sorted
ApplyOneWithoutSort(schedule, ov) ==
    Append(SplitAll(schedule, ov), ov)

\* One pass of the outer loop's body: split, push the override, re-sort
ApplyOne(schedule, ov) ==
    SortByStart(Append(SplitAll(schedule, ov), ov))

\* The outer loop over a sequence of overrides, in that order
RECURSIVE ApplyInOrder(_, _)
ApplyInOrder(schedule, ovs) ==
    IF ovs = <<>> THEN schedule
    ELSE ApplyInOrder(ApplyOne(schedule, Head(ovs)), Tail(ovs))

\* applyOverrides as a function of its two arguments
applyOverrides(baseSchedule, ovs) ==
    ApplyInOrder(baseSchedule, SortByStart(ovs))

---------------------------------------------------------------------------
(* truncateAndFilterSchedule *)

Max(a, b) == IF a >= b THEN a ELSE b
Min(a, b) == IF a <= b THEN a ELSE b

\* What one shift contributes to finalSchedule
TruncateShift(shift, f, u) ==
    LET has_overlap == (shift.start_at < u) /\ (shift.end_at > f)
        truncated_start == Max(shift.start_at, f)
        truncated_end == Min(shift.end_at, u)
    IN  IF has_overlap /\ truncated_start < truncated_end
        THEN <<Shift(shift.user, dateIso(truncated_start), dateIso(truncated_end))>>
        ELSE <<>>

RECURSIVE truncateAndFilterSchedule(_, _, _)
truncateAndFilterSchedule(schedule, f, u) ==
    IF schedule = <<>> THEN <<>>
    ELSE TruncateShift(Head(schedule), f, u)
         \o truncateAndFilterSchedule(Tail(schedule), f, u)

---------------------------------------------------------------------------
(* The state machine: main calls makeSchedule *)

Init ==
    /\ config \in Configs
    /\ \E w \in Windows : from = w[1] /\ until = w[2]
    /\ overrides = <<>>
    /\ parsedOverrides = <<>>
    /\ baseShifts = <<>>
    /\ current_shift_start_ms = 0
    /\ current_user_index = 0
    /\ workingSchedule = <<>>
    /\ nextOverride = 0
    /\ finalSchedule = <<>>
    /\ pc = "main"

\* main: the window check, then the call of makeSchedule
Main ==
    /\ pc = "main"
    /\ pc' = IF from >= until THEN "threw" ELSE "generate"
    /\ UNCHANGED <<config, from, until, overrides, parsedOverrides, baseShifts,
                   current_shift_start_ms, current_user_index, workingSchedule,
                   nextOverride, finalSchedule>>

\* generateBaseSchedule up to its loop: the interval check and the first shift
GenerateStart ==
    /\ pc = "generate"
    /\ IF IntervalMs(config) <= 0
       THEN /\ pc' = "threw"
            /\ UNCHANGED <<current_shift_start_ms, current_user_index>>
       ELSE LET ip == intervals_passed(config, from)
            IN  /\ current_shift_start_ms' =
                       config.handover_start_ms + ip * IntervalMs(config)
                /\ current_user_index' = first_user_index(ip, Len(config.users))
                /\ pc' = "generateLoop"
    /\ UNCHANGED <<config, from, until, overrides, parsedOverrides, baseShifts,
                   workingSchedule, nextOverride, finalSchedule>>

\* One pass of the while loop of generateBaseSchedule
GenerateShift ==
    /\ pc = "generateLoop"
    /\ current_shift_start_ms < until
    /\ LET current_shift_end_ms == current_shift_start_ms + IntervalMs(config)
       IN  /\ baseShifts' = Append(baseShifts,
                   Shift(UserAt(config.users, current_user_index),
                         current_shift_start_ms, current_shift_end_ms))
           /\ current_shift_start_ms' = current_shift_end_ms
    /\ current_user_index' = next_user_index(current_user_index, Len(config.users))
    /\ UNCHANGED <<config, from, until, overrides, parsedOverrides,
                   workingSchedule, nextOverride, finalSchedule, pc>>

\* The loop ends and generateBaseSchedule returns baseShifts
GenerateReturn ==
    /\ pc = "generateLoop"
    /\ ~(current_shift_start_ms < until)
    /\ pc' = "parse"
    /\ UNCHANGED <<config, from, until, overrides, parsedOverrides, baseShifts,
                   current_shift_start_ms, current_user_index, workingSchedule,
                   nextOverride, finalSchedule>>

\* makeSchedule maps the supplied overrides to parsedOverrides
ParseOverrides ==
    /\ pc = "parse"
    /\ \E ovs \in OverrideInputs :
          /\ overrides' = ovs
          /\ parsedOverrides' = ovs
    /\ pc' = "apply"
    /\ UNCHANGED <<config, from, until, baseShifts, current_shift_start_ms,
                   current_user_index, workingSchedule, nextOverride,
                   finalSchedule>>

\* applyOverrides up to its loop: the copy of the base schedule and the sort
\* of the overrides, which sorts the array it was given
ApplyStart ==
    /\ pc = "apply"
    /\ workingSchedule' = baseShifts
    /\ parsedOverrides' = SortByStart(parsedOverrides)
    /\ nextOverride' = 1
    /\ pc' = "applyLoop"
    /\ UNCHANGED <<config, from, until, overrides, baseShifts,
                   current_shift_start_ms, current_user_index, finalSchedule>>

\* One pass of the outer loop of applyOverrides
ApplyOverride ==
    /\ pc = "applyLoop"
    /\ nextOverride <= Len(parsedOverrides)
    /\ workingSchedule' = ApplyOne(workingSchedule, parsedOverrides[nextOverride])
    /\ nextOverride' = nextOverride + 1
    /\ UNCHANGED <<config, from, until, overrides, parsedOverrides, baseShifts,
                   current_shift_start_ms, current_user_index, finalSchedule, pc>>

\* applyOverrides returns workingSchedule
ApplyReturn ==
    /\ pc = "applyLoop"
    /\ nextOverride > Len(parsedOverrides)
    /\ pc' = "truncate"
    /\ UNCHANGED <<config, from, until, overrides, parsedOverrides, baseShifts,
                   current_shift_start_ms, current_user_index, workingSchedule,
                   nextOverride, finalSchedule>>

\* truncateAndFilterSchedule, whose result makeSchedule returns
Truncate ==
    /\ pc = "truncate"
    /\ finalSchedule' = truncateAndFilterSchedule(workingSchedule, from, until)
    /\ pc' = "done"
    /\ UNCHANGED <<config, from, until, overrides, parsedOverrides, baseShifts,
                   current_shift_start_ms, current_user_index, workingSchedule,
                   nextOverride>>

Next ==
    \/ Main
    \/ GenerateStart
    \/ GenerateShift
    \/ GenerateReturn
    \/ ParseOverrides
    \/ ApplyStart
    \/ ApplyOverride
    \/ ApplyReturn
    \/ Truncate

Spec == Init /\ [][Next]_vars

---------------------------------------------------------------------------
(* Vocabulary of the properties *)

ValidConfig == Len(config.users) > 0 /\ IntervalMs(config) > 0

\* generateBaseSchedule has just returned baseShifts
Generated == pc = "parse"

\* makeSchedule is past its call of generateBaseSchedule
PastGenerate == pc \in {"parse", "apply", "applyLoop", "truncate", "done"}

\* applyOverrides is in its loop or has just returned
Applying == pc \in {"applyLoop", "truncate"}

\* applyOverrides has just returned workingSchedule
Applied == pc = "truncate"

Covers(x, t) == x.start_at <= t /\ t < x.end_at

Covering(schedule, t) == { i \in DOMAIN schedule : Covers(schedule[i], t) }

Overlap(a, b) == a.start_at < b.end_at /\ b.start_at < a.end_at

NonOverlapping(ovs) ==
    \A i, j \in DOMAIN ovs : i < j => ~Overlap(ovs[i], ovs[j])

\* Every boundary of the base schedule, of the overrides and of the window.
\* Each shift of a working schedule begins and ends on one of them, so the
\* users assigned at an instant t are those assigned at the greatest boundary
\* <= t, and no shift covers an instant before the least boundary: a
\* statement about every instant is a statement about these.
Instants ==
    {from, until}
    \cup { baseShifts[i].start_at : i \in DOMAIN baseShifts }
    \cup { baseShifts[i].end_at : i \in DOMAIN baseShifts }
    \cup { overrides[i].start_at : i \in DOMAIN overrides }
    \cup { overrides[i].end_at : i \in DOMAIN overrides }

BaseStart == baseShifts[1].start_at
BaseEnd == baseShifts[Len(baseShifts)].end_at
InBaseRange(t) == baseShifts # <<>> /\ BaseStart <= t /\ t < BaseEnd

SortedByStart(schedule) ==
    \A i \in 1..(Len(schedule) - 1) :
        schedule[i].start_at <= schedule[i + 1].start_at

\* The base shifts an override overlaps
Spanned(ov) == { i \in DOMAIN baseShifts : Overlap(baseShifts[i], ov) }

Permutations(n) ==
    { p \in [1..n -> 1..n] : \A i, j \in 1..n : i # j => p[i] # p[j] }

Permute(s, p) == [i \in 1..Len(s) |-> s[p[i]]]

---------------------------------------------------------------------------
(* Properties *)

\* C1: override precedence.  When applyOverrides has returned and the
\* supplied overrides are mutually non-overlapping, every instant inside an
\* override is covered by exactly one returned shift and that shift names
\* the override's user.
C1_OverridePrecedence ==
    (Applied /\ NonOverlapping(overrides)) =>
        \A k \in DOMAIN overrides : \A t \in Instants :
            Covers(overrides[k], t) =>
                \E i \in DOMAIN workingSchedule :
                    /\ Covering(workingSchedule, t) = {i}
                    /\ workingSchedule[i].user = overrides[k].user

\* Two overrides have been applied, one of which spans two base shifts
C1_Witness ==
    /\ Applied /\ NonOverlapping(overrides) /\ Len(overrides) = 2
    /\ \E k \in DOMAIN overrides :
          /\ Cardinality(Spanned(overrides[k])) >= 2
          /\ \E i \in DOMAIN workingSchedule :
                workingSchedule[i] = overrides[k]

\* C2: non-override preservation.  When applyOverrides has returned, every
\* instant of the base range that no override covers is covered by exactly
\* one returned shift, whose user is that of the base shift covering it.
C2_NonOverridePreservation ==
    Applied =>
        \A t \in Instants :
            (InBaseRange(t) /\ \A k \in DOMAIN overrides : ~Covers(overrides[k], t)) =>
                \E i \in DOMAIN workingSchedule : \E b \in DOMAIN baseShifts :
                    /\ Covering(workingSchedule, t) = {i}
                    /\ Covers(baseShifts[b], t)
                    /\ workingSchedule[i].user = baseShifts[b].user

\* A base shift cut by an override in its middle has left both remnants
C2_Witness ==
    /\ Applied /\ ValidConfig /\ Len(config.users) = 2
    /\ \E k \in DOMAIN overrides : \E b \in DOMAIN baseShifts :
        \E i, j \in DOMAIN workingSchedule :
          /\ baseShifts[b].start_at < overrides[k].start_at
          /\ overrides[k].end_at < baseShifts[b].end_at
          /\ workingSchedule[i] = Shift(baseShifts[b].user,
                 baseShifts[b].start_at, overrides[k].start_at)
          /\ workingSchedule[j] = Shift(baseShifts[b].user,
                 overrides[k].end_at, baseShifts[b].end_at)

\* C3: validity is preserved.  With mutually non-overlapping overrides, the
\* working schedule after each pass of the outer loop, and the one returned,
\* is sorted by start; inside the base range each shift ends where the next
\* begins, and every instant of the range is covered exactly once.
C3_ValidityPreserved ==
    (Applying /\ NonOverlapping(overrides)) =>
        /\ SortedByStart(workingSchedule)
        /\ \A i \in 1..(Len(workingSchedule) - 1) :
              LET e == workingSchedule[i].end_at
                  n == workingSchedule[i + 1].start_at
              IN  ((BaseStart < e /\ e < BaseEnd) \/ (BaseStart < n /\ n < BaseEnd))
                      => e = n
        /\ \A t \in Instants :
              InBaseRange(t) => Cardinality(Covering(workingSchedule, t)) = 1

\* Two overrides have been applied, one inside the base range and one
\* after it with a gap between
C3_Witness ==
    /\ Applying /\ NonOverlapping(overrides) /\ nextOverride = 3
    /\ Len(workingSchedule) >= 3
    /\ \E k \in DOMAIN overrides : InBaseRange(overrides[k].start_at)
    /\ \E k \in DOMAIN overrides : overrides[k].start_at > BaseEnd

\* C4: truncation correctness.  Every shift truncateAndFilterSchedule emits
\* (here for a valid configuration), with the start_at and end_at it carries,
\* satisfies from <= start_at < end_at <= until.
C4_TruncationCorrectness ==
    (pc = "done" /\ ValidConfig) =>
        \A i \in DOMAIN finalSchedule :
            /\ from <= finalSchedule[i].start_at
            /\ finalSchedule[i].start_at < finalSchedule[i].end_at
            /\ finalSchedule[i].end_at <= until

\* C5: base schedule shape.  For a valid configuration the base schedule is
\* non-empty, every shift is one interval long and begins a whole number of
\* intervals from the anchor, each shift ends where the next begins, the
\* first shift contains from and the last one ends at or after until, having
\* begun before it.
C5_BaseScheduleShape ==
    (Generated /\ ValidConfig) =>
        LET n == Len(baseShifts)
            anchor == config.handover_start_ms
            interval == IntervalMs(config)
        IN  /\ n > 0
            /\ \A i \in 1..n :
                  /\ baseShifts[i].end_at - baseShifts[i].start_at = interval
                  /\ (baseShifts[i].start_at - anchor) % interval = 0
                  /\ (baseShifts[i].end_at - anchor) % interval = 0
            /\ \A i \in 1..(n - 1) :
                  baseShifts[i].end_at = baseShifts[i + 1].start_at
            /\ baseShifts[1].start_at <= from /\ from < baseShifts[1].end_at
            /\ baseShifts[n].start_at < until /\ until <= baseShifts[n].end_at

\* A base schedule of two shifts generated for a window that begins before
\* the anchor and is not aligned to the rotation
C5_Witness ==
    /\ Generated /\ ValidConfig
    /\ from < config.handover_start_ms
    /\ Len(baseShifts) = 2
    /\ baseShifts[1].start_at < from
    /\ until < baseShifts[2].end_at

\* C6: cyclic fairness.  For a valid configuration the shift that begins k
\* intervals from the anchor names users[k mod N], mod being the
\* non-negative remainder, and the index advances by one modulo N from each
\* shift to the next.
C6_CyclicFairness ==
    (Generated /\ ValidConfig) =>
        LET N == Len(config.users)
            k(i) == (baseShifts[i].start_at - config.handover_start_ms)
                        \div IntervalMs(config)
        IN  /\ \A i \in DOMAIN baseShifts :
                  /\ baseShifts[i].start_at =
                         config.handover_start_ms + k(i) * IntervalMs(config)
                  /\ baseShifts[i].user = config.users[(k(i) % N) + 1]
            /\ \A i \in 1..(Len(baseShifts) - 1) :
                  \E u \in 1..N :
                      /\ baseShifts[i].user = config.users[u]
                      /\ baseShifts[i + 1].user = config.users[(u % N) + 1]

\* Users [A, B] and a window that begins before the anchor: the first shift
\* (k = -1) names B, the next one A
C6_Witness ==
    /\ Generated
    /\ config.users = <<"A", "B">>
    /\ from < config.handover_start_ms
    /\ Len(baseShifts) >= 2
    /\ baseShifts[1].start_at = config.handover_start_ms - IntervalMs(config)
    /\ baseShifts[1].user = "B"
    /\ baseShifts[2].user = "A"

\* C7: InvalidConfig.  With an interval <= 0 or an empty user list the
\* computation ends in an error before any shift is generated, and no
\* schedule is returned.
C7_InvalidConfigFails ==
    (IntervalMs(config) <= 0 \/ Len(config.users) = 0) =>
        /\ baseShifts = <<>>
        /\ finalSchedule = <<>>
        /\ ~PastGenerate

\* C8: order insensitivity.  With mutually non-overlapping overrides, the
\* schedule applyOverrides returned is the one it returns for every
\* permutation of the supplied overrides, and the one the outer loop builds
\* when it takes the overrides in any order.
C8_OrderInsensitive ==
    (Applied /\ NonOverlapping(overrides)) =>
        \A p \in Permutations(Len(overrides)) :
            /\ applyOverrides(baseShifts, Permute(overrides, p)) = workingSchedule
            /\ ApplyInOrder(baseShifts, Permute(overrides, p)) = workingSchedule

\* Two overrides supplied in descending start order have been applied to a
\* base schedule both of them cut
C8_Witness ==
    /\ Applied /\ NonOverlapping(overrides) /\ Len(overrides) = 2
    /\ overrides[2].start_at < overrides[1].start_at
    /\ InBaseRange(overrides[1].start_at)
    /\ InBaseRange(overrides[2].start_at)
    /\ Len(workingSchedule) >= 4

\* C9: purity of applyOverrides.  No step of a call of applyOverrides
\* changes the base schedule or the override array it was given.
C9_InputsUnchanged ==
    [][(pc \in {"apply", "applyLoop"}) =>
           (baseShifts' = baseShifts /\ parsedOverrides' = parsedOverrides)]_<<vars>>

\* C10: overlapping overrides do not corrupt the schedule.  Whatever the
\* overlaps among the overrides, the returned schedule is sorted by start,
\* every shift has start < end, every instant of the base range is covered
\* exactly once, and an instant some override covers belongs to the last
\* override covering it in the order of application.
C10_OverlapSafe ==
    Applied =>
        /\ SortedByStart(workingSchedule)
        /\ \A i \in DOMAIN workingSchedule :
              workingSchedule[i].start_at < workingSchedule[i].end_at
        /\ \A i, j \in DOMAIN workingSchedule :
              i < j => ~Overlap(workingSchedule[i], workingSchedule[j])
        /\ \A t \in Instants :
              InBaseRange(t) => Cardinality(Covering(workingSchedule, t)) = 1
        /\ \A t \in Instants :
              LET covering == { k \in DOMAIN parsedOverrides :
                                   Covers(parsedOverrides[k], t) }
              IN  covering # {} =>
                      LET last == CHOOSE k \in covering :
                                      \A m \in covering : m <= k
                      IN  \E i \in DOMAIN workingSchedule :
                              /\ Covering(workingSchedule, t) = {i}
                              /\ workingSchedule[i].user = parsedOverrides[last].user

\* Two overrides that overlap partly inside the base range have been
\* applied, and the earlier one survives cut short
C10_Witness ==
    /\ Applied /\ Len(parsedOverrides) = 2
    /\ parsedOverrides[1].start_at < parsedOverrides[2].start_at
    /\ parsedOverrides[2].start_at < parsedOverrides[1].end_at
    /\ parsedOverrides[1].end_at < parsedOverrides[2].end_at
    /\ InBaseRange(parsedOverrides[2].start_at)
    /\ \E i \in DOMAIN workingSchedule :
          workingSchedule[i] = Shift(parsedOverrides[1].user,
              parsedOverrides[1].start_at, parsedOverrides[2].start_at)

\* The boundaries of the returned schedule and of the window, as supplied
\* and as formatted: every returned shift begins and ends on one of them
OutputInstants ==
    {from, until, dateIso(from), dateIso(until)}
    \cup { finalSchedule[i].start_at : i \in DOMAIN finalSchedule }
    \cup { finalSchedule[i].end_at : i \in DOMAIN finalSchedule }

\* What holds of the returned timestamps for a valid configuration: the
\* schedule is non-empty and ascending, runs from the formatted from to the
\* formatted until, each end_at is the next start_at, and nothing lies
\* outside the formatted window.
FormattedTiling ==
    (pc = "done" /\ ValidConfig) =>
        LET n == Len(finalSchedule)
        IN  /\ n > 0
            /\ SortedByStart(finalSchedule)
            /\ finalSchedule[1].start_at = dateIso(from)
            /\ finalSchedule[n].end_at = dateIso(until)
            /\ \A i \in 1..(n - 1) :
                  finalSchedule[i].end_at = finalSchedule[i + 1].start_at
            /\ \A i \in 1..n :
                  /\ dateIso(from) <= finalSchedule[i].start_at
                  /\ finalSchedule[i].end_at <= dateIso(until)

\* C11: end-to-end tiling of the window.  For a valid configuration and
\* overrides with start < end, the schedule makeSchedule returns is
\* non-empty and ascending, its first start_at is the formatted from, its
\* last end_at the formatted until, each end_at is the next start_at, no
\* fragment lies outside the window, and every instant of [from, until) is
\* covered by exactly one returned shift.
C11_EndToEndTiling ==
    /\ FormattedTiling
    /\ (pc = "done" /\ ValidConfig) =>
          \A t \in OutputInstants :
              (from <= t /\ t < until) =>
                  Cardinality(Covering(finalSchedule, t)) = 1

===========================================================================
